---- MODULE Spec2Model ----
(***************************************************************************)
(* Model of the three scraper programs of the repository:                  *)
(*   myntra2_fast.py  MyntraWebScraper      (shallow: listing pages)       *)
(*   myntra_new.py    MyntraProductScraper  (deep: detail pages)           *)
(*   nyakaa_new.py    NykaaProductScraper   (deep: detail pages)           *)
(* A text is a sequence of tokens (strings); the browser, the site and the *)
(* file system are the environment, whose answers are chosen with \E.      *)
(***************************************************************************)
EXTENDS Integers, Sequences, FiniteSets, TLC

VARIABLES
    prog,              \* which program's main() is running
    pc,                \* position in main() / run_scraping_session()
    driver,            \* TRUE once webdriver.Chrome(...) has returned
    quitCalls,         \* number of driver.quit() invocations
    error,             \* exception that left the term loop: none/Exception/KeyboardInterrupt
    summary,           \* TRUE once the "Total products" line is printed
    max_pages,         \* shallow: page limit typed by the user
    max_products,      \* deep: max products per term typed by the user
    termIdx,           \* index of the term the for-loop is at
    search_urls,       \* term -> URL returned by its search (None when failed)
    search_urls_json,  \* content of search_urls.json
    current_page,      \* shallow: page counter of the while-loop
    page_elems,        \* shallow: elements the last listing page held
    page_products,     \* shallow: return value of scrape_products_from_page
    all_products,      \* shallow: in-session buffer
    csv_file,          \* shallow: <output_file>.csv
    csv0,              \* shallow: <output_file>.csv as it was before the session
    saved,             \* shallow: records of the batches whose save_to_csv returned
    product_urls,      \* deep: URLs collected for the current term
    urlIdx,            \* deep: index of enumerate(product_urls, 1)
    scraped_data,      \* deep: in-session buffer self.scraped_data
    out_csv,           \* deep: <filename>.csv
    out_json,          \* deep: <filename>.json
    timed_out,         \* terms whose listing wait ended in TimeoutException
    loads,             \* history of listing/detail page loads: <<term, page or url>>
    detail_log,        \* deep: history of extract_product_details calls
    collected,         \* deep: history of the URLs collect_product_urls returned
    nbatches,          \* shallow: number of save_to_csv calls that returned
    served,            \* number of listing elements the site has served so far
    events,            \* history of page loads and time.sleep pacing delays
    elem,              \* SpecExtract: the DOM handed to the extractor
    rec                \* SpecExtract: what the extractor returned

vars == <<prog, pc, driver, quitCalls, error, summary, max_pages, max_products,
          termIdx, search_urls, search_urls_json, current_page, page_elems,
          page_products, all_products, csv_file, csv0, saved, product_urls,
          urlIdx, scraped_data, out_csv, out_json, timed_out, loads,
          detail_log, collected, nbatches, served, events, elem, rec>>

----------------------------------------------------------------------------
\* Bounds of the model

\* number of search terms of main's list that the model crawls
NumTerms == 2
\* largest page limit / product limit the user types
MaxLimit == 2
\* the site serves products on at most this many listing pages per term
SitePages == 2
\* most elements a listing page holds
MaxElems == 2
\* most listing elements the site serves during one session
MaxServed == 4

----------------------------------------------------------------------------
\* Texts and values

NA == <<"N/A">>
None == <<"<None>">>
Absent == <<"<NoSuchElementException>">>
Broken == <<"<WebDriverException>">>
WS == " "

SearchItems == <<"white shirt", "black dress", "denim jeans", "summer kurti">>
search_terms == SubSeq(SearchItems, 1, NumTerms)
TermIds == 1..NumTerms

Programs == {"myntra2_fast", "myntra_new", "nyakaa_new"}
Deep == {"myntra_new", "nyakaa_new"}

RECURSIVE LStrip(_, _)
LStrip(s, chars) ==
    IF s /= <<>> /\ Head(s) \in chars THEN LStrip(Tail(s), chars) ELSE s

RECURSIVE RStrip(_, _)
RStrip(s, chars) ==
    IF s /= <<>> /\ s[Len(s)] \in chars
    THEN RStrip(SubSeq(s, 1, Len(s) - 1), chars) ELSE s

\* str.strip(chars): drop leading and trailing tokens that are in chars
Strip(s, chars) == RStrip(LStrip(s, chars), chars)

RECURSIVE Join(_, _)
Join(sep, ss) ==
    IF ss = <<>> THEN <<>>
    ELSE IF Len(ss) = 1 THEN ss[1]
    ELSE ss[1] \o <<sep>> \o Join(sep, Tail(ss))

IsPrefix(s, t) == Len(s) <= Len(t) /\ SubSeq(t, 1, Len(s)) = s

\* Python truthiness of a str-or-None value: "" and None are falsy
Falsy(x) == x = <<>> \/ x = None

----------------------------------------------------------------------------
\* myntra2_fast.py: the listing-element extractor

ListingNodes == {"brand", "discountedPrice", "ratingsContainer", "product",
                 "strike", "discountPercentage", "link", "img",
                 "ratingsCount", "breadcrumb"}

\* ProductInfo(search_term=...): every other field starts at "N/A"
ProductInfo(search_term) ==
    [search_term |-> <<search_term>>, brand_name |-> NA, current_price |-> NA,
     product_rating |-> NA, product_title |-> NA, original_price |-> NA,
     sale_price |-> NA, discount_percent |-> NA, category_path |-> NA,
     product_link |-> NA, image_link |-> NA, review_count |-> NA,
     size_options |-> NA]

\* try: find_element(...) ... except NoSuchElementException: pass
OrDefault(node, default) == IF node = Absent THEN default ELSE node

\* any exception other than NoSuchElementException leaves the extractor
extract_raises(e) == \E n \in ListingNodes : e[n] = Broken

extract_product_details(e, search_term) ==
    LET product == ProductInfo(search_term) IN
    [product EXCEPT
        !.brand_name = OrDefault(e.brand, @),
        !.current_price = OrDefault(e.discountedPrice, @),
        !.product_rating = OrDefault(e.ratingsContainer, @),
        !.product_title = OrDefault(e.product, @),
        !.original_price = OrDefault(e.strike, @),
        !.sale_price = OrDefault(e.discountedPrice, @),
        !.discount_percent = OrDefault(e.discountPercentage, @),
        !.product_link = OrDefault(e.link, @),
        !.image_link = OrDefault(e.img, @),
        !.review_count = IF e.ratingsCount = Absent THEN @
                         ELSE Strip(e.ratingsCount, {"(", ")"}),
        !.category_path = OrDefault(e.breadcrumb, @)]

\* a loop that a failing element ends: the products before it are returned
RECURSIVE extract_each_until_failure(_, _)
extract_each_until_failure(elements, search_term) ==
    IF elements = <<>> \/ extract_raises(Head(elements)) THEN <<>>
    ELSE <<extract_product_details(Head(elements), search_term)>>
         \o extract_each_until_failure(Tail(elements), search_term)

\* for element in product_elements: try: append(extract(...)) except Exception: continue
RECURSIVE extract_each(_, _)
extract_each(elements, search_term) ==
    IF elements = <<>> THEN <<>>
    ELSE (IF extract_raises(Head(elements)) THEN <<>>
          ELSE <<extract_product_details(Head(elements), search_term)>>)
         \o extract_each(Tail(elements), search_term)

\* the method without its except TimeoutException clause
scrape_products_timeout_escapes(search_term, page) ==
    IF page.status = "ok"
    THEN [products |-> extract_each(page.elements, search_term), exc |-> "none"]
    ELSE [products |-> <<>>, exc |-> "Exception"]

\* returns [products, exc]: exc is the exception that leaves the method
scrape_products_from_page(search_term, page) ==
    IF page.status = "timeout" THEN [products |-> <<>>, exc |-> "none"]
    ELSE IF page.status = "error" THEN [products |-> <<>>, exc |-> "Exception"]
    ELSE [products |-> extract_each(page.elements, search_term), exc |-> "none"]

\* writer.writeheader(): the row that maps every field name to itself
HeaderRow ==
    [search_term |-> <<"search_term">>, brand_name |-> <<"brand_name">>,
     current_price |-> <<"current_price">>, product_rating |-> <<"product_rating">>,
     product_title |-> <<"product_title">>, original_price |-> <<"original_price">>,
     sale_price |-> <<"sale_price">>, discount_percent |-> <<"discount_percent">>,
     category_path |-> <<"category_path">>, product_link |-> <<"product_link">>,
     image_link |-> <<"image_link">>, review_count |-> <<"review_count">>,
     size_options |-> <<"size_options">>]

NoFile == [exists |-> FALSE, rows |-> <<>>]

csv_mode_truncating(file, append_mode) == "w"

\* mode = 'a' if append_mode and os.path.exists(...) else 'w'
csv_mode(file, append_mode) == IF append_mode /\ file.exists THEN "a" ELSE "w"

save_to_csv_header_each_call(file, products, append_mode) ==
    [exists |-> TRUE,
     rows |-> (IF csv_mode(file, append_mode) = "w" THEN <<>> ELSE file.rows)
              \o <<HeaderRow>> \o products]

save_to_csv(file, products, append_mode) ==
    IF csv_mode(file, append_mode) = "w"
    THEN [exists |-> TRUE, rows |-> <<HeaderRow>> \o products]
    ELSE [exists |-> TRUE, rows |-> file.rows \o products]

\* the loop condition off by one page
page_loop_one_more(page, limit) == limit <= 0 \/ page <= limit + 1

\* the loop condition without the float('inf') case
page_loop_zero_is_a_limit(page, limit) == page <= limit

\* while current_page <= pages_to_scrape, pages_to_scrape = inf unless max_pages > 0
page_loop_continues(page, limit) == limit <= 0 \/ page <= limit

page_is_empty_never(products) == FALSE

\* if not page_products: break
page_is_empty(products) == products = <<>>

close_browser_inverted(d, q) == IF ~d THEN q + 1 ELSE q

\* if self.driver: self.driver.quit()
close_browser(d, q) == IF d THEN q + 1 ELSE q

----------------------------------------------------------------------------
\* The site as the sessions see it

SearchUrl(term) == <<"http", "s://www.myntra.com/", term>>

\* page_url = f"{base_url}&p={current_page}"
PageUrl(base_url, page) == base_url \o <<"&p=", ToString(page)>>

ProductUrl(term, i) == <<"http", "s://www.myntra.com/", term, "/buy/", ToString(i)>>

\* a listing element whose nodes are all present, and one that has gone stale;
\* the site lists the same products on every page of a term, with the count
\* of ratings as it stands when the page is loaded
ListingElement(term, page, i, shape) ==
    [brand |-> IF shape = "stale" THEN Broken ELSE <<"Brand">>,
     discountedPrice |-> <<"Rs.", "499">>,
     ratingsContainer |-> <<"4.2">>,
     product |-> <<"Title">>,
     strike |-> <<"Rs.", "999">>,
     discountPercentage |-> <<"(50% OFF)">>,
     link |-> <<"http", "s://www.myntra.com/", term, "/buy/", ToString(i)>>,
     img |-> <<"http", "s://assets.myntassets.com/", ToString(i), ".jpg">>,
     ratingsCount |-> <<"(", ToString(11 + page), ")">>,
     breadcrumb |-> Absent]

ElementShapes == {"ok", "stale"}

\* what driver.get + WebDriverWait.until can answer for a listing page
ElementCounts(budget) == 1..(IF budget < MaxElems THEN budget ELSE MaxElems)

ListingPages(term, page, budget) ==
    {[status |-> st, elements |-> <<>>] : st \in {"timeout", "error"}}
    \cup
    (IF page > SitePages THEN {}
     ELSE {[status |-> "ok",
            elements |-> [i \in 1..n |-> ListingElement(term, page, i, sh[i])]] :
           n \in ElementCounts(budget), sh \in [1..MaxElems -> ElementShapes]})

\* the output file a previous run of the program left behind
OldFile == save_to_csv(NoFile, <<ProductInfo("old run")>>, TRUE)

----------------------------------------------------------------------------
\* myntra2_fast.py: main() and run_scraping_session()

Shallow == prog = "myntra2_fast"

\* an entry of the history of requests and delays: a listing-page or detail-page
\* load (found = elements the wait returned, products = records it produced)
\* or a time.sleep between requests
Event(kind, term, page, found, products) ==
    [kind |-> kind, term |-> term, page |-> page, found |-> found,
     products |-> products]

InitializeBrowser ==
    /\ Shallow /\ pc = "start"
    /\ \/ /\ driver' = TRUE
          /\ pc' = "search"
          /\ error' = error
       \/ /\ driver' = FALSE
          /\ pc' = "exit"
          /\ error' = "Exception"
    /\ UNCHANGED <<prog, quitCalls, summary, max_pages, max_products, termIdx,
                   search_urls, search_urls_json, current_page, page_elems,
                   page_products, all_products, csv_file, csv0, saved,
                   product_urls, urlIdx, scraped_data, out_csv, out_json,
                   timed_out, loads, detail_log, collected, nbatches, served, events, elem, rec>>

\* search_and_get_url: any Exception is caught and None returned
search_and_get_url(term, outcome) ==
    IF outcome = "ok" THEN SearchUrl(term) ELSE None

SearchAndGetUrl ==
    /\ Shallow /\ pc = "search"
    /\ \E outcome \in {"ok", "error"} :
          search_urls' = Append(search_urls,
                                search_and_get_url(search_terms[termIdx], outcome))
    /\ IF termIdx < NumTerms
       THEN termIdx' = termIdx + 1 /\ pc' = pc
       ELSE termIdx' = 1 /\ pc' = "dump"
    /\ UNCHANGED <<prog, driver, quitCalls, error, summary, max_pages,
                   max_products, search_urls_json, current_page, page_elems,
                   page_products, all_products, csv_file, csv0, saved,
                   product_urls, urlIdx, scraped_data, out_csv, out_json,
                   timed_out, loads, detail_log, collected, nbatches, served, events, elem, rec>>

\* search_urls.json with the failed searches left out
json_dump_resolved_only(urls) == SelectSeq(urls, LAMBDA u : u /= None)

\* json.dump(search_urls, f): one entry per term, None written as null
json_dump(urls) == urls

DumpSearchUrls ==
    /\ Shallow /\ pc = "dump"
    /\ \/ /\ search_urls_json' = json_dump(search_urls)
          /\ pc' = "term"
          /\ error' = error
       \/ /\ search_urls_json' = search_urls_json
          /\ pc' = "main_finally"
          /\ error' = "Exception"
    /\ UNCHANGED <<prog, driver, quitCalls, summary, max_pages, max_products,
                   termIdx, search_urls, current_page, page_elems,
                   page_products, all_products, csv_file, csv0, saved,
                   product_urls, urlIdx, scraped_data, out_csv, out_json,
                   timed_out, loads, detail_log, collected, nbatches, served, events, elem, rec>>

skip_term_never(base_url) == FALSE

\* if not base_url: continue
skip_term(base_url) == Falsy(base_url)

NextTerm ==
    /\ Shallow /\ pc = "term"
    /\ IF termIdx > NumTerms
       THEN /\ pc' = "sess_finally"
            /\ UNCHANGED <<termIdx, current_page>>
       ELSE IF skip_term(search_urls[termIdx])
       THEN /\ termIdx' = termIdx + 1
            /\ UNCHANGED <<pc, current_page>>
       ELSE /\ current_page' = 1
            /\ pc' = "page"
            /\ UNCHANGED termIdx
    /\ UNCHANGED <<prog, driver, quitCalls, error, summary, max_pages,
                   max_products, search_urls, search_urls_json, page_elems,
                   page_products, all_products, csv_file, csv0, saved,
                   product_urls, urlIdx, scraped_data, out_csv, out_json,
                   timed_out, loads, detail_log, collected, nbatches, served, events, elem, rec>>

PagesDone ==
    /\ Shallow /\ pc = "page"
    /\ ~page_loop_continues(current_page, max_pages)
    /\ termIdx' = termIdx + 1
    /\ pc' = "term"
    /\ UNCHANGED <<prog, driver, quitCalls, error, summary, max_pages,
                   max_products, search_urls, search_urls_json, current_page,
                   page_elems, page_products, all_products, csv_file, csv0,
                   saved, product_urls, urlIdx, scraped_data, out_csv,
                   out_json, timed_out, loads, detail_log, collected, nbatches, served, events, elem, rec>>

\* a buffer that keeps one record per product link
extend_merging(buffer, products) ==
    buffer \o SelectSeq(products, LAMBDA r :
                  \A i \in 1..Len(buffer) : buffer[i].product_link /= r.product_link)

\* all_products.extend(page_products)
extend(buffer, products) == buffer \o products

ScrapePage ==
    /\ Shallow /\ pc = "page"
    /\ page_loop_continues(current_page, max_pages)
    /\ \E page \in ListingPages(search_terms[termIdx], current_page, MaxServed - served) :
        LET r == scrape_products_from_page(search_terms[termIdx], page) IN
        /\ page_elems' = page.elements
        /\ served' = served + Len(page.elements)
        /\ timed_out' = IF page.status = "timeout"
                        THEN timed_out \cup {termIdx} ELSE timed_out
        /\ loads' = Append(loads, [term |-> termIdx,
                                   url |-> PageUrl(search_urls[termIdx], current_page)])
        /\ events' = Append(events, Event(IF r.exc = "none" THEN "listing"
                                          ELSE "listing_error", termIdx,
                                          current_page, Len(page.elements),
                                          Len(r.products)))
        /\ IF r.exc /= "none"
           THEN /\ error' = r.exc
                /\ pc' = "sess_finally"
                /\ UNCHANGED <<page_products, all_products, termIdx>>
           ELSE /\ page_products' = r.products
                /\ error' = error
                /\ IF page_is_empty(r.products)
                   THEN /\ termIdx' = termIdx + 1
                        /\ pc' = "term"
                        /\ UNCHANGED all_products
                   ELSE /\ all_products' = extend(all_products, r.products)
                        /\ pc' = "save"
                        /\ UNCHANGED termIdx
    /\ UNCHANGED <<prog, driver, quitCalls, summary, max_pages, max_products,
                   search_urls, search_urls_json, current_page, csv_file, csv0,
                   saved, product_urls, urlIdx, scraped_data, out_csv,
                   out_json, detail_log, collected, nbatches, elem, rec>>

SavePage ==
    /\ Shallow /\ pc = "save"
    /\ \/ /\ csv_file' = save_to_csv(csv_file, page_products, TRUE)
          /\ saved' = saved \o page_products
          /\ nbatches' = nbatches + 1
          /\ pc' = "delay"
          /\ error' = error
       \/ \* open() fails, or a write fails after k rows: the exception leaves the loop
          /\ \/ csv_file' = csv_file
             \/ \E k \in 0..(Len(page_products) - 1) :
                   csv_file' = save_to_csv(csv_file, SubSeq(page_products, 1, k), TRUE)
          /\ saved' = saved
          /\ nbatches' = nbatches
          /\ pc' = "sess_finally"
          /\ error' = "Exception"
    /\ UNCHANGED <<prog, driver, quitCalls, summary, max_pages, max_products,
                   termIdx, search_urls, search_urls_json, current_page,
                   page_elems, page_products, all_products, csv0,
                   product_urls, urlIdx, scraped_data, out_csv, out_json,
                   timed_out, loads, detail_log, collected, served, events, elem, rec>>

PageDelay ==
    /\ Shallow /\ pc = "delay"
    /\ current_page' = current_page + 1
    /\ events' = Append(events, Event("sleep", termIdx, current_page, 0, 0))
    /\ pc' = "page"
    /\ UNCHANGED <<prog, driver, quitCalls, error, summary, max_pages,
                   max_products, termIdx, search_urls, search_urls_json,
                   page_elems, page_products, all_products, csv_file, csv0,
                   saved, product_urls, urlIdx, scraped_data, out_csv,
                   out_json, timed_out, loads, detail_log, collected, nbatches, served, elem, rec>>

\* finally: self.close_browser(); a KeyboardInterrupt then goes on to main
SessionFinally ==
    /\ Shallow /\ pc = "sess_finally"
    /\ quitCalls' = close_browser(driver, quitCalls)
    /\ \/ /\ error' = error
          /\ pc' = IF error = "KeyboardInterrupt" THEN "main_finally" ELSE "summary"
       \/ \* Ctrl-C while driver.quit() blocks
          /\ error' = "KeyboardInterrupt"
          /\ pc' = "main_finally"
    /\ UNCHANGED <<prog, driver, summary, max_pages, max_products,
                   termIdx, search_urls, search_urls_json, current_page,
                   page_elems, page_products, all_products, csv_file, csv0,
                   saved, product_urls, urlIdx, scraped_data, out_csv,
                   out_json, timed_out, loads, detail_log, collected, nbatches, served, events, elem, rec>>

PrintSummary ==
    /\ Shallow /\ pc = "summary"
    /\ summary' = TRUE
    /\ pc' = "main_finally"
    /\ UNCHANGED <<prog, driver, quitCalls, error, max_pages, max_products,
                   termIdx, search_urls, search_urls_json, current_page,
                   page_elems, page_products, all_products, csv_file, csv0,
                   saved, product_urls, urlIdx, scraped_data, out_csv,
                   out_json, timed_out, loads, detail_log, collected, nbatches, served, events, elem, rec>>

\* main: finally: scraper.close_browser()
MainFinally ==
    /\ Shallow /\ pc = "main_finally"
    /\ quitCalls' = close_browser(driver, quitCalls)
    /\ pc' = "exit"
    /\ \/ error' = error
       \/ error' = "KeyboardInterrupt"  \* Ctrl-C while driver.quit() blocks
    /\ UNCHANGED <<prog, driver, summary, max_pages, max_products,
                   termIdx, search_urls, search_urls_json, current_page,
                   page_elems, page_products, all_products, csv_file, csv0,
                   saved, product_urls, urlIdx, scraped_data, out_csv,
                   out_json, timed_out, loads, detail_log, collected, nbatches, served, events, elem, rec>>

\* Ctrl-C during a blocking step (driver call, sleep, file write): inside the
\* session's try it runs the session's finally first, otherwise main's
KeyboardInterrupt ==
    /\ Shallow
    /\ \/ /\ pc \in {"search", "dump"}
          /\ pc' = "main_finally"
       \/ /\ pc \in {"save", "delay"} \/ (pc = "page" /\ page_loop_continues(current_page, max_pages))
          /\ pc' = "sess_finally"
    /\ error' = "KeyboardInterrupt"
    /\ UNCHANGED <<prog, driver, quitCalls, summary, max_pages, max_products,
                   termIdx, search_urls, search_urls_json, current_page,
                   page_elems, page_products, all_products, csv_file, csv0,
                   saved, product_urls, urlIdx, scraped_data, out_csv,
                   out_json, timed_out, loads, detail_log, collected, nbatches, served, events, elem, rec>>

----------------------------------------------------------------------------
\* myntra_new.py / nyakaa_new.py: the detail-page extractors

\* _safe_extract / _safe_extract_xpath: text.strip(), "N/A" on any exception
safe_extract(node) ==
    IF node = Absent \/ node = Broken THEN NA ELSE Strip(node, {WS})

StartsWithHttp(s) == s /= <<>> /\ Head(s) = "http"

\* a normalisation that keeps the text as it is
KeepQuery(s) == s

\* result.rsplit("?", 1)[0]: cut at the last "?" instead of the first
RECURSIVE BeforeLastQuery(_)
BeforeLastQuery(s) ==
    IF s = <<>> THEN <<>>
    ELSE IF s[Len(s)] = "?" THEN SubSeq(s, 1, Len(s) - 1)
    ELSE IF \E k \in 1..Len(s) : s[k] = "?"
         THEN BeforeLastQuery(SubSeq(s, 1, Len(s) - 1))
         ELSE s

\* result.split("?")[0]
RECURSIVE BeforeQuery(_)
BeforeQuery(s) ==
    IF s = <<>> \/ Head(s) = "?" THEN <<>> ELSE <<Head(s)>> \o BeforeQuery(Tail(s))

ImageNotAvailable == <<"Image not available">>

\* the keywords _find_product_image_fallback looks for in an <img> src
Keywords(p) ==
    IF p = "nyakaa_new" THEN {"nykaa", "assets", "product"}
    ELSE {"myntra", "assets"}

\* src.lower(), on the tokens the <img> srcs of the model are made of
Lower(tok) == IF tok = "Assets.Site.com" THEN "assets.site.com" ELSE tok

\* the keywords that are substrings of a lower-case token
KeywordsIn(tok) ==
    CASE tok = "assets.site.com" -> {"assets"}
      [] tok = "assets.myntassets.com" -> {"assets"}
      [] tok = "www.myntra.com" -> {"myntra"}
      [] tok = "images-static.nykaa.com" -> {"nykaa"}
      [] tok = "/product/1.jpg" -> {"product"}
      [] OTHER -> {}

\* any(keyword in src.lower() for keyword in [...])
has_keyword(p, src) ==
    \E i \in 1..Len(src) : KeywordsIn(Lower(src[i])) \cap Keywords(p) /= {}

\* a scan that takes the first <img> that has a src, whatever it points to
RECURSIVE first_src_any_host(_, _)
first_src_any_host(p, srcs) ==
    IF srcs = <<>> THEN None
    ELSE IF ~Falsy(Head(srcs)) THEN Head(srcs)
    ELSE first_src_any_host(p, Tail(srcs))

\* for img in all_images: if src and any(keyword in src.lower() ...): return src
RECURSIVE first_keyword_src(_, _)
first_keyword_src(p, srcs) ==
    IF srcs = <<>> THEN None
    ELSE IF ~Falsy(Head(srcs)) /\ has_keyword(p, Head(srcs)) THEN Head(srcs)
    ELSE first_keyword_src(p, Tail(srcs))

\* _find_product_image_fallback: find_elements or get_attribute may raise
find_product_image_fallback(p, page) ==
    IF page.imgs_ok THEN first_keyword_src(p, page.all_imgs) ELSE Broken

\* number of selector strategies declared before the fallback scan
SelectorStrategies(p) == IF p = "nyakaa_new" THEN 3 ELSE 4

\* what each strategy of image_strategies answers when called, in declared
\* order: page.images are the answers to the selector strategies
image_strategies(p, page) ==
    SubSeq(page.images, 1, SelectorStrategies(p))
    \o <<find_product_image_fallback(p, page)>>

\* result and result.startswith("http")
image_accepted(result) ==
    result /= Broken /\ ~Falsy(result) /\ StartsWithHttp(result)

\* a loop that remembers the last accepted result instead of returning the first
RECURSIVE extract_product_image_last(_)
extract_product_image_last(outcomes) ==
    IF outcomes = <<>> THEN ImageNotAvailable
    ELSE IF image_accepted(outcomes[Len(outcomes)])
         THEN BeforeQuery(outcomes[Len(outcomes)])
         ELSE extract_product_image_last(SubSeq(outcomes, 1, Len(outcomes) - 1))

\* number of strategies the loop of extract_product_image calls
RECURSIVE image_strategy_calls(_)
image_strategy_calls(outcomes) ==
    IF outcomes = <<>> THEN 0
    ELSE IF image_accepted(Head(outcomes)) THEN 1
    ELSE 1 + image_strategy_calls(Tail(outcomes))

\* outcomes: what each strategy of image_strategies answers, in declared order
\* (a text, None, or Broken when it raises)
RECURSIVE extract_product_image(_)
extract_product_image(outcomes) ==
    IF outcomes = <<>> THEN ImageNotAvailable
    ELSE LET result == Head(outcomes) IN
         IF result /= Broken /\ ~Falsy(result) /\ StartsWithHttp(result)
         THEN BeforeQuery(result)
         ELSE extract_product_image(Tail(outcomes))

\* [review.text.strip() for review in review_elements if review.text.strip()]
RECURSIVE stripped_nonempty(_)
stripped_nonempty(texts) ==
    IF texts = <<>> THEN <<>>
    ELSE (IF Strip(Head(texts), {WS}) = <<>> THEN <<>>
          ELSE <<Strip(Head(texts), {WS})>>)
         \o stripped_nonempty(Tail(texts))

extract_reviews(page) ==
    IF page.reviews_ok THEN stripped_nonempty(page.reviews) ELSE <<>>

\* the test without its aria-disabled half
is_disabled_by_class_only(button) ==
    \E i \in 1..Len(button.class) : button.class[i] = "disabled"

\* "disabled" in class or aria-disabled == "true"
is_disabled(button) ==
    (\E i \in 1..Len(button.class) : button.class[i] = "disabled")
    \/ button.aria = <<"true">>

RECURSIVE size_info(_)
size_info(buttons) ==
    IF buttons = <<>> THEN <<>>
    ELSE LET button == Head(buttons)
             size_text == Strip(button.text, {WS})
         IN (IF size_text = <<>> THEN <<>>
             ELSE <<size_text \o <<" (", IF is_disabled(button) THEN "Out of Stock"
                                         ELSE "In Stock", ")">> >>)
            \o size_info(Tail(buttons))

\* get_attribute("class") returning None makes the "in" test raise: except -> []
extract_size_options(page) ==
    IF ~page.sizes_ok THEN <<>>
    ELSE IF \E i \in 1..Len(page.sizes) :
                /\ Strip(page.sizes[i].text, {WS}) /= <<>>
                /\ page.sizes[i].class = None
         THEN <<>>
         ELSE size_info(page.sizes)

extract_breadcrumb(page) ==
    IF page.crumbs_ok THEN Join(" > ", stripped_nonempty(page.crumbs)) ELSE NA

\* the test of myntra_new.py in both scrapers
original_price_missing_if_falsy(p, original_price) == Falsy(original_price)

\* "Handle missing original price"
original_price_missing(p, original_price) ==
    IF p = "nyakaa_new" THEN Falsy(original_price) \/ original_price = NA
    ELSE Falsy(original_price)

\* driver.get(product_url) raising is the one exception the helpers do not swallow
details_raise(page) == page.load /= "ok"

extract_product_details_deep(p, page, product_url, search_keyword) ==
    LET discounted_price == safe_extract(page.price)
        mrp == safe_extract(page.mrp)
        original_price == IF original_price_missing(p, mrp)
                          THEN discounted_price ELSE mrp
        product_info ==
            [search_keyword |-> <<search_keyword>>,
             product_url |-> product_url,
             brand |-> safe_extract(page.title),
             name |-> safe_extract(page.name),
             discounted_price |-> discounted_price,
             original_price |-> original_price,
             rating |-> safe_extract(page.rating),
             image_url |-> extract_product_image(image_strategies(p, page)),
             reviews |-> extract_reviews(page),
             available_sizes |-> extract_size_options(page)]
    IN IF p = "nyakaa_new" THEN product_info
       ELSE [f \in DOMAIN product_info \cup {"breadcrumb"} |->
                IF f = "breadcrumb" THEN extract_breadcrumb(page)
                ELSE product_info[f]]

\* product_elements, with no limit applied
py_slice_all(elements, m) == elements

\* product_elements[:max_products]
py_slice_to(elements, m) ==
    IF m >= 0 THEN SubSeq(elements, 1, IF m < Len(elements) THEN m ELSE Len(elements))
    ELSE SubSeq(elements, 1, Len(elements) + m)

\* try: href of the element's first <a> ... except: continue
RECURSIVE links_of(_)
links_of(elements) ==
    IF elements = <<>> THEN <<>>
    ELSE (IF Head(elements).link = Broken \/ Head(elements).link = Absent THEN <<>>
          ELSE <<Head(elements).link>>)
         \o links_of(Tail(elements))

\* returns [urls, exc]: only TimeoutException is caught
collect_product_urls(page, limit) ==
    IF page.status = "timeout" THEN [urls |-> <<>>, exc |-> "none"]
    ELSE IF page.status = "error" THEN [urls |-> <<>>, exc |-> "Exception"]
    ELSE [urls |-> links_of(py_slice_to(page.elements, limit)), exc |-> "none"]

\* csv_row = product.copy() with the two list fields flattened
csv_row(product) ==
    [product EXCEPT
        !.reviews = IF @ /= <<>> THEN Join(" | ", @) ELSE <<"No reviews">>,
        !.available_sizes = IF @ /= <<>> THEN Join("; ", @) ELSE <<"No sizes">>]

RECURSIVE csv_rows(_)
csv_rows(products) ==
    IF products = <<>> THEN <<>>
    ELSE <<csv_row(Head(products))>> \o csv_rows(Tail(products))

DeepFieldNames(p) ==
    {"search_keyword", "brand", "name", "product_url", "image_url",
     "original_price", "discounted_price", "rating", "reviews", "available_sizes"}
    \cup (IF p = "nyakaa_new" THEN {} ELSE {"breadcrumb"})

DeepHeaderRow(p) == [f \in DeepFieldNames(p) |-> <<f>>]

\* csv_row = product: the row is the buffer's own record, flattened in place
product_flattened_in_place(product) == csv_row(product)

\* csv_row = product.copy(): what the loop leaves of the record in the buffer
product_after_csv_row(product) == product

\* self.scraped_data once the csv loop has run over it
buffer_after_csv(data) ==
    [i \in 1..Len(data) |-> product_after_csv_row(data[i])]

\* save_data: returns [csv, json] as written when nothing fails, and the
\* buffer as the csv loop leaves it; json.dump writes the buffer after the loop
save_data(p, data, csv, json) ==
    IF data = <<>> THEN [csv |-> csv, json |-> json, data |-> data]
    ELSE [csv |-> [exists |-> TRUE, rows |-> <<DeepHeaderRow(p)>> \o csv_rows(data)],
          json |-> [exists |-> TRUE, rows |-> buffer_after_csv(data)],
          data |-> buffer_after_csv(data)]

\* MyntraProductScraper.close: self.driver.quit()
close(q) == q + 1

----------------------------------------------------------------------------
\* myntra_new.py / nyakaa_new.py: main() and run_scraping_session()

IsDeep == prog \in Deep

\* what driver.get + WebDriverWait.until + find_elements answer for the results page
DeepListingPages(term, budget) ==
    {[status |-> st, elements |-> <<>>] : st \in {"timeout", "error"}}
    \cup
    {[status |-> "ok",
      elements |-> [i \in 1..n |-> [link |-> IF sh[i] = "stale" THEN Broken
                                            ELSE ProductUrl(term, i)]]] :
     n \in ElementCounts(budget), sh \in [1..MaxElems -> ElementShapes]}

\* a detail page with every node present, or one whose load raises
DetailPage(load) ==
    [load |-> load,
     title |-> <<"Brand">>, name |-> <<"Name", WS>>,
     price |-> <<"Rs.", "499">>, mrp |-> <<"Rs.", "999">>,
     rating |-> <<"4.2">>,
     images |-> <<Broken, None,
                  <<"http", "s://assets.myntassets.com/a.jpg", "?", "w=200">>,
                  Broken>>,
     all_imgs |-> <<>>, imgs_ok |-> TRUE,
     reviews |-> << <<"good">> >>, reviews_ok |-> TRUE,
     sizes |-> << [text |-> <<"S">>, class |-> <<"size">>, aria |-> None] >>,
     sizes_ok |-> TRUE,
     crumbs |-> << <<"Home">>, <<"Clothing">> >>, crumbs_ok |-> TRUE]

DetailPages == {DetailPage(load) : load \in {"ok", "error"}}

ConfigureDriver ==
    /\ IsDeep /\ pc = "start"
    /\ \/ /\ driver' = TRUE
          /\ pc' = "d_search"
          /\ error' = error
       \/ /\ driver' = FALSE
          /\ pc' = "exit"
          /\ error' = "Exception"
    /\ UNCHANGED <<prog, quitCalls, summary, max_pages, max_products, termIdx,
                   search_urls, search_urls_json, current_page, page_elems,
                   page_products, all_products, csv_file, csv0, saved,
                   product_urls, urlIdx, scraped_data, out_csv, out_json,
                   timed_out, loads, detail_log, collected, nbatches, served, events, elem, rec>>

\* search_products: any Exception is caught and None returned
search_products(term, outcome) ==
    IF outcome = "ok" THEN SearchUrl(term) ELSE None

\* if not search_url: continue
skip_search(search_url) == Falsy(search_url)

SearchProducts ==
    /\ IsDeep /\ pc = "d_search" /\ termIdx <= NumTerms
    /\ \E outcome \in {"ok", "error"} :
        LET search_url == search_products(search_terms[termIdx], outcome) IN
        /\ search_urls' = Append(search_urls, search_url)
        /\ IF skip_search(search_url)
           THEN termIdx' = termIdx + 1 /\ pc' = pc
           ELSE termIdx' = termIdx /\ pc' = "d_collect"
    /\ UNCHANGED <<prog, driver, quitCalls, error, summary, max_pages,
                   max_products, search_urls_json, current_page, page_elems,
                   page_products, all_products, csv_file, csv0, saved,
                   product_urls, urlIdx, scraped_data, out_csv, out_json,
                   timed_out, loads, detail_log, collected, nbatches, served, events, elem, rec>>

\* the for-loop is exhausted: print the summary and return to main
TermsDone ==
    /\ IsDeep /\ pc = "d_search" /\ termIdx > NumTerms
    /\ summary' = TRUE
    /\ pc' = "d_save"
    /\ UNCHANGED <<prog, driver, quitCalls, error, max_pages, max_products,
                   termIdx, search_urls, search_urls_json, current_page,
                   page_elems, page_products, all_products, csv_file, csv0,
                   saved, product_urls, urlIdx, scraped_data, out_csv,
                   out_json, timed_out, loads, detail_log, collected, nbatches, served, events, elem, rec>>

CollectProductUrls ==
    /\ IsDeep /\ pc = "d_collect"
    /\ \E page \in DeepListingPages(search_terms[termIdx], MaxServed - served) :
        LET r == collect_product_urls(page, max_products) IN
        /\ served' = served + Len(page.elements)
        /\ timed_out' = IF page.status = "timeout"
                        THEN timed_out \cup {termIdx} ELSE timed_out
        /\ loads' = Append(loads, [term |-> termIdx, url |-> search_urls[termIdx]])
        /\ events' = Append(events, Event(IF r.exc = "none" THEN "listing"
                                          ELSE "listing_error", termIdx, 1,
                                          Len(page.elements), Len(r.urls)))
        /\ IF r.exc /= "none"
           THEN /\ error' = r.exc
                /\ pc' = "d_finally"
                /\ UNCHANGED <<product_urls, urlIdx, collected>>
           ELSE /\ product_urls' = r.urls
                /\ collected' = collected \o
                      [i \in 1..Len(r.urls) |-> [term |-> termIdx, url |-> r.urls[i]]]
                /\ urlIdx' = 1
                /\ pc' = "d_visit"
                /\ error' = error
    /\ UNCHANGED <<prog, driver, quitCalls, summary, max_pages, max_products,
                   termIdx, search_urls, search_urls_json, current_page,
                   page_elems, page_products, all_products, csv_file, csv0,
                   saved, scraped_data, out_csv, out_json, detail_log, nbatches, elem, rec>>

ExtractDetails ==
    /\ IsDeep /\ pc = "d_visit" /\ urlIdx <= Len(product_urls)
    /\ \E page \in DetailPages :
        LET url == product_urls[urlIdx] IN
        /\ loads' = Append(loads, [term |-> termIdx, url |-> url])
        /\ events' = Append(events, Event("detail", termIdx, urlIdx, 1,
                                          IF details_raise(page) THEN 0 ELSE 1))
        /\ detail_log' = Append(detail_log, [term |-> termIdx, url |-> url,
                                             ok |-> ~details_raise(page)])
        /\ scraped_data' =
              IF details_raise(page) THEN scraped_data
              ELSE Append(scraped_data,
                          extract_product_details_deep(prog, page, url,
                                                       search_terms[termIdx]))
    /\ pc' = "d_delay"
    /\ UNCHANGED <<prog, driver, quitCalls, error, summary, max_pages,
                   max_products, termIdx, search_urls, search_urls_json,
                   current_page, page_elems, page_products, all_products,
                   csv_file, csv0, saved, product_urls, urlIdx, out_csv,
                   out_json, timed_out, collected, nbatches, served, elem, rec>>

RateLimit ==
    /\ IsDeep /\ pc = "d_delay"
    /\ urlIdx' = urlIdx + 1
    /\ events' = Append(events, Event("sleep", termIdx, urlIdx, 0, 0))
    /\ pc' = "d_visit"
    /\ UNCHANGED <<prog, driver, quitCalls, error, summary, max_pages,
                   max_products, termIdx, search_urls, search_urls_json,
                   current_page, page_elems, page_products, all_products,
                   csv_file, csv0, saved, product_urls, scraped_data, out_csv,
                   out_json, timed_out, loads, detail_log, collected, nbatches, served, elem, rec>>

UrlsDone ==
    /\ IsDeep /\ pc = "d_visit" /\ urlIdx > Len(product_urls)
    /\ termIdx' = termIdx + 1
    /\ pc' = "d_search"
    /\ UNCHANGED <<prog, driver, quitCalls, error, summary, max_pages,
                   max_products, search_urls, search_urls_json, current_page,
                   page_elems, page_products, all_products, csv_file, csv0,
                   saved, product_urls, urlIdx, scraped_data, out_csv,
                   out_json, timed_out, loads, detail_log, collected, nbatches, served, events, elem, rec>>

\* main: scraper.save_data(output_file), the only place the deep scrapers write
SaveData ==
    /\ IsDeep /\ pc = "d_save"
    /\ LET w == save_data(prog, scraped_data, out_csv, out_json) IN
       \/ /\ out_csv' = w.csv
          /\ out_json' = w.json
          /\ scraped_data' = w.data
          /\ error' = error
       \/ \* open() of the csv fails, or the json write fails after the csv
          /\ scraped_data /= <<>>
          /\ \/ out_csv' = out_csv /\ scraped_data' = scraped_data
             \/ out_csv' = w.csv /\ scraped_data' = w.data
          /\ out_json' = out_json
          /\ error' = "Exception"
    /\ pc' = "d_finally"
    /\ UNCHANGED <<prog, driver, quitCalls, summary, max_pages, max_products,
                   termIdx, search_urls, search_urls_json, current_page,
                   page_elems, page_products, all_products, csv_file, csv0,
                   saved, product_urls, urlIdx, timed_out,
                   loads, detail_log, collected, nbatches, served, events, elem, rec>>

\* main: finally: scraper.close()
DeepFinally ==
    /\ IsDeep /\ pc = "d_finally"
    /\ quitCalls' = close(quitCalls)
    /\ pc' = "exit"
    /\ \/ error' = error
       \/ error' = "KeyboardInterrupt"  \* Ctrl-C while driver.quit() blocks
    /\ UNCHANGED <<prog, driver, summary, max_pages, max_products,
                   termIdx, search_urls, search_urls_json, current_page,
                   page_elems, page_products, all_products, csv_file, csv0,
                   saved, product_urls, urlIdx, scraped_data, out_csv,
                   out_json, timed_out, loads, detail_log, collected, nbatches, served, events, elem, rec>>

\* Ctrl-C during a blocking step: not an Exception, so only main's finally runs
DeepInterrupt ==
    /\ IsDeep
    /\ \/ pc \in {"d_collect", "d_delay", "d_save"}
       \/ pc = "d_search" /\ termIdx <= NumTerms
       \/ pc = "d_visit" /\ urlIdx <= Len(product_urls)
    /\ error' = "KeyboardInterrupt"
    /\ pc' = "d_finally"
    /\ UNCHANGED <<prog, driver, quitCalls, summary, max_pages, max_products,
                   termIdx, search_urls, search_urls_json, current_page,
                   page_elems, page_products, all_products, csv_file, csv0,
                   saved, product_urls, urlIdx, scraped_data, out_csv,
                   out_json, timed_out, loads, detail_log, collected, nbatches, served, events, elem, rec>>

----------------------------------------------------------------------------
\* The sessions

NoElem == [kind |-> "none"]

Init ==
    /\ prog \in Programs
    /\ pc = "start"
    /\ driver = FALSE
    /\ quitCalls = 0
    /\ error = "none"
    /\ summary = FALSE
    /\ max_pages \in (IF prog = "myntra2_fast" THEN 0..MaxLimit ELSE {0})
    /\ max_products \in (IF prog \in Deep THEN (-1)..MaxLimit ELSE {0})
    /\ termIdx = 1
    /\ search_urls = <<>>
    /\ search_urls_json = <<>>
    /\ current_page = 1
    /\ page_elems = <<>>
    /\ page_products = <<>>
    /\ all_products = <<>>
    /\ csv_file \in (IF prog = "myntra2_fast" THEN {NoFile, OldFile} ELSE {NoFile})
    /\ csv0 = csv_file
    /\ saved = <<>>
    /\ product_urls = <<>>
    /\ urlIdx = 1
    /\ scraped_data = <<>>
    /\ out_csv = NoFile
    /\ out_json = NoFile
    /\ timed_out = {}
    /\ loads = <<>>
    /\ detail_log = <<>>
    /\ collected = <<>>
    /\ nbatches = 0
    /\ served = 0
    /\ events = <<>>
    /\ elem = NoElem
    /\ rec = NoElem

Next ==
    \/ InitializeBrowser \/ SearchAndGetUrl \/ DumpSearchUrls \/ NextTerm
    \/ PagesDone \/ ScrapePage \/ SavePage \/ PageDelay \/ SessionFinally
    \/ PrintSummary \/ MainFinally \/ KeyboardInterrupt
    \/ ConfigureDriver \/ SearchProducts \/ TermsDone \/ CollectProductUrls
    \/ ExtractDetails \/ RateLimit \/ UrlsDone \/ SaveData \/ DeepFinally
    \/ DeepInterrupt

Spec == Init /\ [][Next]_vars

----------------------------------------------------------------------------
\* The extractors on their own: Init draws a DOM, the action extracts from it

PriceTexts == {Absent, Broken, <<>>, <<WS>>, <<"Rs.", "499">>}
MrpTexts == {Absent, Broken, <<>>, <<WS>>, <<"Rs.", "999">>}

ListingElements ==
    [brand : {Absent, Broken, <<"Brand">>},
     discountedPrice : PriceTexts \ {<<WS>>},
     ratingsContainer : {Absent, <<"4.2">>},
     product : {Absent, <<"Title">>},
     strike : MrpTexts \ {<<WS>>},
     discountPercentage : {Absent, <<"(50% OFF)">>},
     link : {Absent, None, <<"http", "s://www.myntra.com/1">>},
     img : {Absent, <<"http", "s://assets.myntassets.com/1.jpg">>},
     ratingsCount : {Absent, Broken, <<"(", "12", ")">>},
     breadcrumb : {Absent, <<"Clothing">>}]

ImageOutcomes ==
    {<<Broken, Broken, Broken, Broken>>,
     <<Broken, None, <<"data:image">>, <<"http", "s://cdn/a.jpg", "?", "w=200">> >>,
     <<<<"http", "s://cdn/b.jpg">>, Broken, Broken, <<"http", "s://cdn/a.jpg">> >>,
     <<<<"data:image">>, <<"http", "s://cdn/b.jpg", "?", "w=200">>,
       <<"http", "s://cdn/a.jpg">>, Broken>>,
     <<<<"?", "http">>, <<"http", "s://cdn/c.jpg", "?", "u=", "?", "w=200">>,
       Broken, Broken>>}

\* <img> srcs the scan of all images can meet
CdnSrc == <<"http", "s://", "cdn.site.com", "/img/123.jpg", "?", "w=200">>
AssetsSrc == <<"http", "s://", "Assets.Site.com", "/a.jpg", "?", "w=200">>
NykaaSrc == <<"http", "s://", "images-static.nykaa.com", "/b.jpg">>
RelativeSrc == <<"//", "assets.myntassets.com", "/c.jpg">>

AllImgs ==
    {<<>>, <<None, CdnSrc>>, <<CdnSrc, AssetsSrc>>, <<NykaaSrc, AssetsSrc>>,
     <<RelativeSrc, AssetsSrc>>}

SizeButtons ==
    {<<>>,
     << [text |-> <<"S">>, class |-> <<"size">>, aria |-> None],
        [text |-> <<"M", WS>>, class |-> <<"size", "disabled">>, aria |-> None] >>,
     << [text |-> <<"S">>, class |-> <<"size">>, aria |-> <<"false">>],
        [text |-> <<"M">>, class |-> <<"size">>, aria |-> <<"true">>],
        [text |-> <<"L">>, class |-> <<"size", "disabled">>, aria |-> <<"true">>] >>,
     << [text |-> <<"S">>, class |-> <<"size", "disabled">>, aria |-> None],
        [text |-> <<WS>>, class |-> <<"size">>, aria |-> None],
        [text |-> <<"L">>, class |-> <<"size">>, aria |-> None] >>}

\* a detail page on which every node is present
BaseDom ==
    [load |-> "ok",
     title |-> <<"Brand">>, name |-> <<"Name", WS>>,
     price |-> <<"Rs.", "499">>, mrp |-> <<"Rs.", "999">>,
     rating |-> <<"4.2">>,
     images |-> <<Broken, Broken, Broken, Broken>>,
     all_imgs |-> <<>>, imgs_ok |-> TRUE,
     reviews |-> <<>>, reviews_ok |-> TRUE,
     sizes |-> <<>>, sizes_ok |-> TRUE,
     crumbs |-> << <<"Home">>, <<"Clothing">> >>, crumbs_ok |-> TRUE]

\* the detail pages: the text nodes, the image nodes and the list nodes vary
DetailDoms ==
    {[BaseDom EXCEPT !.load = l, !.title = t, !.price = p, !.mrp = m,
                     !.rating = r] :
        l \in {"ok", "error"}, t \in {Absent, Broken, <<"Brand">>},
        p \in PriceTexts, m \in MrpTexts, r \in {Absent, <<"4.2">>}}
    \cup
    {[BaseDom EXCEPT !.images = i, !.all_imgs = a, !.imgs_ok = b] :
        i \in ImageOutcomes, a \in AllImgs, b \in BOOLEAN}
    \cup
    {[BaseDom EXCEPT !.reviews = v, !.reviews_ok = vb, !.sizes = z,
                     !.sizes_ok = zb, !.crumbs_ok = cb] :
        v \in {<<>>, << <<"good">>, <<WS>> >>}, vb \in BOOLEAN,
        z \in SizeButtons, zb \in BOOLEAN, cb \in BOOLEAN}

InitExtract ==
    /\ prog \in Programs
    /\ pc = "x_ready"
    /\ elem \in (IF prog = "myntra2_fast" THEN ListingElements ELSE DetailDoms)
    /\ rec = NoElem
    /\ driver = TRUE
    /\ quitCalls = 0
    /\ error = "none"
    /\ summary = FALSE
    /\ max_pages = 0
    /\ max_products = 0
    /\ termIdx = 1
    /\ search_urls = <<>>
    /\ search_urls_json = <<>>
    /\ current_page = 1
    /\ page_elems = <<>>
    /\ page_products = <<>>
    /\ all_products = <<>>
    /\ csv_file = NoFile
    /\ csv0 = NoFile
    /\ saved = <<>>
    /\ product_urls = <<>>
    /\ urlIdx = 1
    /\ scraped_data = <<>>
    /\ out_csv = NoFile
    /\ out_json = NoFile
    /\ timed_out = {}
    /\ loads = <<>>
    /\ detail_log = <<>>
    /\ collected = <<>>
    /\ nbatches = 0
    /\ served = 0
    /\ events = <<>>

\* MyntraWebScraper.extract_product_details(product_element, search_term)
ExtractListing ==
    /\ prog = "myntra2_fast" /\ pc = "x_ready"
    /\ rec' = IF extract_raises(elem) THEN [raised |-> TRUE]
              ELSE [raised |-> FALSE,
                    product |-> extract_product_details(elem, search_terms[termIdx])]
    /\ pc' = "x_done"
    /\ UNCHANGED <<prog, driver, quitCalls, error, summary, max_pages,
                   max_products, termIdx, search_urls, search_urls_json,
                   current_page, page_elems, page_products, all_products,
                   csv_file, csv0, saved, product_urls, urlIdx, scraped_data,
                   out_csv, out_json, timed_out, loads, detail_log, collected, nbatches, served, events, elem>>

\* MyntraProductScraper / NykaaProductScraper .extract_product_details(url, keyword)
ExtractDetail ==
    /\ prog \in Deep /\ pc = "x_ready"
    /\ rec' = IF details_raise(elem) THEN [raised |-> TRUE]
              ELSE [raised |-> FALSE,
                    product |-> extract_product_details_deep(
                                    prog, elem, ProductUrl(search_terms[termIdx], 1),
                                    search_terms[termIdx]),
                    image_calls |-> image_strategy_calls(image_strategies(prog, elem))]
    /\ pc' = "x_done"
    /\ UNCHANGED <<prog, driver, quitCalls, error, summary, max_pages,
                   max_products, termIdx, search_urls, search_urls_json,
                   current_page, page_elems, page_products, all_products,
                   csv_file, csv0, saved, product_urls, urlIdx, scraped_data,
                   out_csv, out_json, timed_out, loads, detail_log, collected, nbatches, served, events, elem>>

NextExtract == ExtractListing \/ ExtractDetail

SpecExtract == InitExtract /\ [][NextExtract]_vars

----------------------------------------------------------------------------
\* save_to_csv on its own: batches appended to one target, one call per step

\* most save_to_csv calls on the target
MaxBatches == 3

BatchRecords ==
    {extract_product_details(ListingElement(search_terms[1], 1, i, "ok"),
                             search_terms[1]) : i \in 1..2}

Batches == UNION {[1..n -> BatchRecords] : n \in 0..MaxElems}

InitSink ==
    /\ prog = "myntra2_fast"
    /\ pc = "sink"
    /\ csv_file \in {NoFile, OldFile}
    /\ csv0 = csv_file
    /\ saved = <<>>
    /\ nbatches = 0
    /\ page_products = <<>>
    /\ all_products = <<>>
    /\ driver = TRUE
    /\ quitCalls = 0
    /\ error = "none"
    /\ summary = FALSE
    /\ max_pages = 0
    /\ max_products = 0
    /\ termIdx = 1
    /\ search_urls = <<>>
    /\ search_urls_json = <<>>
    /\ current_page = 1
    /\ page_elems = <<>>
    /\ product_urls = <<>>
    /\ urlIdx = 1
    /\ scraped_data = <<>>
    /\ out_csv = NoFile
    /\ out_json = NoFile
    /\ timed_out = {}
    /\ loads = <<>>
    /\ detail_log = <<>>
    /\ collected = <<>>
    /\ served = 0
    /\ events = <<>>
    /\ elem = NoElem
    /\ rec = NoElem

\* scraper.save_to_csv(batch, output_file, append_mode=True)
SinkAppend ==
    /\ pc = "sink" /\ nbatches < MaxBatches
    /\ \E batch \in Batches :
        /\ page_products' = batch
        /\ all_products' = all_products \o batch
        /\ csv_file' = save_to_csv(csv_file, batch, TRUE)
        /\ saved' = saved \o batch
    /\ nbatches' = nbatches + 1
    /\ UNCHANGED <<prog, pc, driver, quitCalls, error, summary, max_pages,
                   max_products, termIdx, search_urls, search_urls_json,
                   current_page, page_elems, csv0, product_urls, urlIdx,
                   scraped_data, out_csv, out_json, timed_out, loads,
                   detail_log, collected, served, events, elem, rec>>

NextSink == SinkAppend

SpecSink == InitSink /\ [][NextSink]_vars

----------------------------------------------------------------------------
\* save_data on its own: main saves a buffer the session has filled

\* most records in the buffer
MaxBuffer == 2

\* detail pages with no or two reviews and with no or two sizes
SavePages ==
    {[BaseDom EXCEPT !.reviews = v, !.sizes = z] :
        v \in {<<>>, << <<"good">>, <<"fits", WS>> >>},
        z \in {<<>>,
               << [text |-> <<"S">>, class |-> <<"size">>, aria |-> None],
                  [text |-> <<"M">>, class |-> <<"size", "disabled">>,
                   aria |-> None] >>}}

BufferRecords(p) ==
    {extract_product_details_deep(p, page, ProductUrl(search_terms[1], 1),
                                  search_terms[1]) : page \in SavePages}

Buffers(p) == UNION {[1..n -> BufferRecords(p)] : n \in 0..MaxBuffer}

InitSave ==
    /\ prog \in Deep
    /\ pc = "d_save"
    /\ scraped_data \in Buffers(prog)
    /\ driver = TRUE
    /\ summary = TRUE
    /\ quitCalls = 0
    /\ error = "none"
    /\ max_pages = 0
    /\ max_products = 0
    /\ termIdx = NumTerms + 1
    /\ search_urls = <<>>
    /\ search_urls_json = <<>>
    /\ current_page = 1
    /\ page_elems = <<>>
    /\ page_products = <<>>
    /\ all_products = <<>>
    /\ csv_file = NoFile
    /\ csv0 = NoFile
    /\ saved = <<>>
    /\ product_urls = <<>>
    /\ urlIdx = 1
    /\ out_csv = NoFile
    /\ out_json = NoFile
    /\ timed_out = {}
    /\ loads = <<>>
    /\ detail_log = <<>>
    /\ collected = <<>>
    /\ nbatches = 0
    /\ served = 0
    /\ events = <<>>
    /\ elem = NoElem
    /\ rec = NoElem

NextSave == SaveData \/ DeepFinally

SpecSave == InitSave /\ [][NextSave]_vars

----------------------------------------------------------------------------
\* Claims

\* number of data rows the deep scrapers' output holds
Persisted == IF out_csv.exists THEN Len(out_csv.rows) - 1 ELSE 0

\* C1: in the deep scrapers every record appended to scraped_data is in the
\* output before the next detail page is visited, so at every moment at most
\* one extracted record is missing from the durable output.
C1_PersistedBeforeNextVisit ==
    IsDeep =>
        /\ (pc = "d_visit" /\ urlIdx <= Len(product_urls)
                => Persisted = Len(scraped_data))
        /\ Len(scraped_data) - Persisted <= 1

\* C2: once the driver has been created, every way main can end (completion,
\* an exception anywhere in the session, a keyboard interrupt) has called
\* driver.quit at least once.
C2_DriverReleased == (pc = "exit" /\ driver) => quitCalls >= 1

\* a shallow session interrupted while it still generates the search URLs
C2_Witness ==
    /\ Shallow /\ pc = "exit" /\ driver
    /\ error = "KeyboardInterrupt"
    /\ search_urls_json = <<>>
    /\ quitCalls = 1

\* C3: over a complete run of main of the shallow scraper driver.quit is
\* invoked exactly once.
C3_QuitExactlyOnce == (Shallow /\ pc = "exit" /\ driver) => quitCalls = 1

\* number of rows the output file held before the first batch of this session
RowsBefore == IF csv0.exists THEN Len(csv0.rows) ELSE 1

\* C4: the records of every page whose save_to_csv has returned are in the
\* CSV file, at the place they were written, in every later state of the
\* session (later pages, later terms, exceptions, the cleanup).
C4_SavedPagesStay ==
    (Shallow /\ saved /= <<>>) =>
        /\ csv_file.exists
        /\ Len(csv_file.rows) >= RowsBefore + Len(saved)
        /\ SubSeq(csv_file.rows, RowsBefore + 1, RowsBefore + Len(saved)) = saved

\* a page was saved, then a page of the second term failed while it was
\* written, and the session has ended
C4_Witness ==
    /\ Shallow /\ pc = "exit" /\ error = "Exception"
    /\ termIdx = 2
    /\ nbatches >= 1
    /\ Len(all_products) > Len(saved)

HeaderCount(rows) == Cardinality({i \in 1..Len(rows) : rows[i] = HeaderRow})

\* C5: after N save_to_csv(batch, target, append_mode=True) calls the target
\* holds the header exactly once, as its first row, followed by the batches'
\* records in submission order (after the rows an earlier run left, if any).
C5_HeaderOnceThenBatches ==
    (pc = "sink" /\ nbatches >= 1) =>
        /\ csv_file.exists
        /\ csv_file.rows[1] = HeaderRow
        /\ HeaderCount(csv_file.rows) = 1
        /\ csv_file.rows = (IF csv0.exists THEN csv0.rows ELSE <<HeaderRow>>) \o saved

\* three calls on a target that did not exist: one of the first two batches
\* was empty, the other held one record, and the third was not empty
C5_Witness ==
    /\ pc = "sink" /\ ~csv0.exists
    /\ nbatches = 3
    /\ Len(saved) >= 2
    /\ page_products /= <<>>
    /\ Len(saved) = Len(page_products) + 1

\* C6: a listing element with a discounted-price node and no original-price
\* node yields a record whose original_price equals its discounted price.
C6_ListingOriginalDefaults ==
    (/\ prog = "myntra2_fast" /\ pc = "x_done" /\ ~rec.raised
     /\ elem.discountedPrice /= Absent
     /\ elem.strike = Absent)
        => /\ rec.product.original_price = rec.product.current_price
           /\ rec.product.original_price = rec.product.sale_price

\* C7: a Myntra detail page without the pdp-mrp node yields a record whose
\* original_price equals its discounted_price, and original_price is never
\* "N/A" while discounted_price holds a real value.
C7_MyntraOriginalDefaults ==
    (prog = "myntra_new" /\ pc = "x_done" /\ ~rec.raised) =>
        /\ (elem.mrp = Absent
                => rec.product.original_price = rec.product.discounted_price)
        /\ (rec.product.original_price = NA
                => rec.product.discounted_price = NA)

\* the product links of the elements of a page whose extraction does not raise
RECURSIVE OkLinks(_)
OkLinks(elements) ==
    IF elements = <<>> THEN <<>>
    ELSE (IF Head(elements).brand = Broken THEN <<>> ELSE <<Head(elements).link>>)
         \o OkLinks(Tail(elements))

LinksOf(products) == [i \in 1..Len(products) |-> products[i].product_link]

UrlsOf(entries) == [i \in 1..Len(entries) |-> entries[i].url]

OkEntries(entries) == SelectSeq(entries, LAMBDA e : e.ok)

\* the session ran to its end: no exception and no interrupt left the term loop
DeepLoopDone == pc \in {"d_save", "d_finally", "exit"} /\ driver /\ error = "none"

\* C8: a failing product never aborts the batch. Deep: the detail visits are
\* the collected URLs in order, none left out once the term loop has ended,
\* and exactly the visits that did not fail appended a record. Shallow: the
\* products of a page are those of all its elements whose extraction does
\* not raise, in page order.
C8_FailureSkipsOneProduct ==
    /\ IsDeep =>
        /\ IsPrefix([i \in 1..Len(detail_log) |->
                        [term |-> detail_log[i].term, url |-> detail_log[i].url]],
                    collected)
        /\ (DeepLoopDone => Len(detail_log) = Len(collected))
        /\ (pc = "d_visit" => Len(detail_log) =
                Len(collected) - Len(product_urls) + urlIdx - 1)
        /\ [i \in 1..Len(scraped_data) |-> scraped_data[i].product_url]
              = UrlsOf(OkEntries(detail_log))
    /\ (Shallow /\ error = "none") => LinksOf(page_products) = OkLinks(page_elems)

\* a detail page failed to load and the next URL of the same term was scraped
C8_Witness ==
    /\ IsDeep
    /\ \E i \in 1..(Len(detail_log) - 1) :
          /\ ~detail_log[i].ok
          /\ detail_log[i + 1].ok
          /\ detail_log[i + 1].term = detail_log[i].term
    /\ Len(scraped_data) = 1

\* the session's records, whichever scraper runs
Records == IF Shallow THEN all_products ELSE scraped_data

RecordTerm(r) == IF Shallow THEN r.search_term ELSE r.search_keyword

\* the term loop has ended without an exception or an interrupt
LoopDone ==
    /\ driver /\ error = "none"
    /\ IF Shallow THEN pc \in {"sess_finally", "summary", "main_finally", "exit"}
       ELSE pc \in {"d_save", "d_finally", "exit"}

\* C9: a term whose search fails contributes no page visit and no record, the
\* terms are crawled in list order, and when the term loop has ended every
\* term whose search succeeded has been crawled.
C9_SearchFailureSkipsTerm ==
    /\ \A t \in 1..Len(search_urls) :
          search_urls[t] = None =>
              /\ \A i \in 1..Len(loads) : loads[i].term /= t
              /\ \A i \in 1..Len(Records) :
                    RecordTerm(Records[i]) /= <<search_terms[t]>>
    /\ \A i, j \in 1..Len(loads) : i < j => loads[i].term <= loads[j].term
    /\ LoopDone =>
          /\ Len(search_urls) = NumTerms
          /\ \A t \in TermIds :
                search_urls[t] /= None => \E i \in 1..Len(loads) : loads[i].term = t

\* the first term's search failed and the second term was crawled to the end
C9_Witness ==
    /\ LoopDone /\ pc = "exit"
    /\ search_urls[1] = None
    /\ search_urls[2] /= None
    /\ \E i \in 1..Len(Records) : RecordTerm(Records[i]) = <<search_terms[2]>>

\* the session went past its search phase and ended without a keyboard interrupt
SessionEnded ==
    /\ pc = "exit" /\ driver /\ error /= "KeyboardInterrupt"
    /\ Shallow => Len(search_urls_json) = NumTerms

IsListing(e) == e.kind \in {"listing", "listing_error"}

\* number of records the listing pages before event i produced
RECURSIVE ProductsBefore(_)
ProductsBefore(i) ==
    IF i <= 1 THEN 0
    ELSE ProductsBefore(i - 1)
         + (IF events[i - 1].kind = "listing" THEN events[i - 1].products ELSE 0)

\* number of listing pages so far that produced at least one record
NonEmptyPages ==
    Cardinality({i \in 1..Len(events) :
                    events[i].kind = "listing" /\ events[i].products > 0})

\* C11: in the shallow scraper, when the wait on page p of a term returns no
\* element (found = 0), no page beyond p of that term is requested afterwards
\* whatever max_pages is, save_to_csv is not called for page p, the records
\* of the pages before p are in the file, and the term loop has moved on to
\* the next term.
C11_EmptyPageEndsPagination ==
    Shallow =>
        /\ \A i \in 1..Len(events) :
              (events[i].kind = "listing" /\ events[i].found = 0) =>
                  LET before == ProductsBefore(i) IN
                  /\ \A j \in 1..Len(events) :
                        (IsListing(events[j]) /\ events[j].term = events[i].term)
                            => /\ events[j].page <= events[i].page
                               /\ j <= i
                  /\ termIdx > events[i].term
                  /\ Len(saved) >= before
                  /\ SubSeq(csv_file.rows, RowsBefore + 1, RowsBefore + before)
                        = SubSeq(all_products, 1, before)
        /\ nbatches <= NonEmptyPages
        /\ NonEmptyPages = 0 => csv_file = csv0

\* unbounded limit: page 1 of the first term was saved, its page 2 came back
\* empty, and the session went on to its end
C11_Witness ==
    /\ Shallow /\ pc = "exit" /\ max_pages = 0
    /\ csv_file.exists /\ ~csv0.exists
    /\ \E i \in 2..Len(events) :
          /\ events[i].kind = "listing" /\ events[i].found = 0
          /\ events[i].term = 1 /\ events[i].page = 2
          /\ Len(csv_file.rows) = 1 + ProductsBefore(i)

\* the listing-page requests of term t, in the order they were made
TermPages(t) == SelectSeq(events, LAMBDA e : IsListing(e) /\ e.term = t)

\* the pages were requested as 1, 2, ..., k
PagesInOrder(pages) == \A i \in 1..Len(pages) : pages[i].page = i

\* C12: with max_pages = 0 the loop condition never ends a term: the pages
\* of a term are requested as 1, 2, 3, ... with no upper limit, every page
\* that produced a product is followed by the request of the next one, and a
\* term the loop has left is a term whose last page produced no product.
C12_ZeroMeansUnbounded ==
    (Shallow /\ max_pages = 0) =>
        /\ pc = "page" => page_loop_continues(current_page, max_pages)
        /\ \A t \in TermIds :
              LET pages == TermPages(t) IN
              /\ PagesInOrder(pages)
              /\ \A i \in 1..(Len(pages) - 1) : pages[i].products > 0
              /\ (t < termIdx /\ Len(search_urls_json) = NumTerms
                    /\ search_urls[t] /= None)
                    => /\ pages /= <<>>
                       /\ pages[Len(pages)].kind = "listing"
                       /\ pages[Len(pages)].products = 0

\* with no limit the first term was followed beyond the largest page limit,
\* to the page after the site's last one, which was empty
C12_Witness ==
    /\ Shallow /\ max_pages = 0 /\ pc = "exit" /\ error = "none"
    /\ Len(TermPages(1)) = SitePages + 1
    /\ SitePages + 1 > MaxLimit
    /\ TermPages(1)[SitePages].products > 0
    /\ TermPages(1)[SitePages + 1].found = 0

\* C13: every session that had a driver ends with the "Total products"
\* summary printed, and the summary is printed only after driver.quit was
\* called: when no term was processed, when an exception left the term loop
\* and when the user interrupted, in the shallow and the deep scrapers.
C13_SummaryOnEveryExit ==
    /\ (pc = "exit" /\ driver) => summary
    /\ summary => quitCalls >= 1

\* the strategies of this page, in declared order, with what each answers
Strategies == image_strategies(prog, elem)

\* the positions of the strategies whose answer passes the validation
Passing ==
    {i \in 1..Len(Strategies) :
        /\ Strategies[i] /= Broken /\ Strategies[i] /= None
        /\ Strategies[i] /= <<>> /\ Strategies[i][1] = "http"}

\* C14: extract_product_image returns the answer of the first strategy, in
\* declared order, that neither raises nor returns nothing nor returns a value
\* that does not start with "http", cut at its first "?"; it calls the
\* strategies up to that one and none after it; when no strategy passes it
\* calls them all and returns "Image not available".
C14_FirstPassingStrategyWins ==
    (prog \in Deep /\ pc = "x_done" /\ ~rec.raised) =>
        IF Passing = {}
        THEN /\ rec.product.image_url = ImageNotAvailable
             /\ rec.image_calls = Len(Strategies)
        ELSE LET first == CHOOSE i \in Passing : \A j \in Passing : i <= j IN
             /\ IsPrefix(rec.product.image_url, Strategies[first])
             /\ \A k \in 1..Len(rec.product.image_url) :
                   rec.product.image_url[k] /= "?"
             /\ \/ Len(rec.product.image_url) = Len(Strategies[first])
                \/ Strategies[first][Len(rec.product.image_url) + 1] = "?"
             /\ rec.image_calls = first

\* the first strategy fails the validation, the second passes and the third
\* would pass too: the result is the second's, and two strategies were called
C14_Witness ==
    /\ prog \in Deep /\ pc = "x_done" /\ ~rec.raised
    /\ Strategies[1] = <<"data:image">>
    /\ Strategies[2] = <<"http", "s://cdn/b.jpg", "?", "w=200">>
    /\ Strategies[3] = <<"http", "s://cdn/a.jpg">>
    /\ rec.product.image_url = <<"http", "s://cdn/b.jpg">>
    /\ rec.image_calls = 2

\* a detail page was extracted on which no selector strategy passes, so the
\* image can only come from the scan of all <img> elements
OnlyFallbackCanMatch ==
    /\ prog \in Deep /\ pc = "x_done" /\ ~rec.raised
    /\ elem.imgs_ok
    /\ Passing \cap 1..SelectorStrategies(prog) = {}

\* the positions of the <img> elements whose src is an absolute URL
AbsoluteImgs ==
    {i \in 1..Len(elem.all_imgs) :
        elem.all_imgs[i] /= <<>> /\ elem.all_imgs[i][1] = "http"}

\* the positions of the <img> elements whose src holds a keyword of the site
KeywordImgs ==
    {i \in 1..Len(elem.all_imgs) :
        /\ elem.all_imgs[i] /= None /\ elem.all_imgs[i] /= <<>>
        /\ \E k \in 1..Len(elem.all_imgs[i]) :
              KeywordsIn(Lower(elem.all_imgs[i][k])) \cap Keywords(prog) /= {}}

\* C15 as stated: when only the scan of all <img> elements can match, the
\* first absolute-URL src it meets is the image_url, cut at its "?"; with
\* the one src https://cdn.site.com/img/123.jpg?w=200 the image_url is
\* https://cdn.site.com/img/123.jpg.
C15_FallbackAcceptsAnyAbsoluteSrc ==
    OnlyFallbackCanMatch =>
        /\ elem.all_imgs = <<None, CdnSrc>> =>
              rec.product.image_url = <<"http", "s://", "cdn.site.com", "/img/123.jpg">>
        /\ AbsoluteImgs /= {} =>
              LET first == CHOOSE i \in AbsoluteImgs : \A j \in AbsoluteImgs : i <= j
              IN rec.product.image_url = BeforeQuery(elem.all_imgs[first])

\* C15 as amended: when only the scan of all <img> elements can match, the
\* scan takes the first src that holds one of the site's keywords; that src
\* is the image_url, cut at its "?", if it starts with "http", and otherwise
\* (no src with a keyword, as for https://cdn.site.com/img/123.jpg?w=200, or
\* a first one that is not absolute) the image_url is "Image not available".
C15_FallbackTakesFirstKeywordSrc ==
    OnlyFallbackCanMatch =>
        /\ elem.all_imgs = <<None, CdnSrc>> =>
              rec.product.image_url = ImageNotAvailable
        /\ IF KeywordImgs = {} THEN rec.product.image_url = ImageNotAvailable
           ELSE LET first == CHOOSE i \in KeywordImgs : \A j \in KeywordImgs : i <= j
                    src == elem.all_imgs[first]
                IN IF src[1] = "http"
                   THEN /\ IsPrefix(rec.product.image_url, src)
                        /\ \A k \in 1..Len(rec.product.image_url) :
                              rec.product.image_url[k] /= "?"
                        /\ \/ Len(rec.product.image_url) = Len(src)
                           \/ src[Len(rec.product.image_url) + 1] = "?"
                   ELSE rec.product.image_url = ImageNotAvailable

\* every selector strategy raises and the scan meets the cdn.site.com image
\* before one of an assets host: the second one is taken, without its query
C15_Witness ==
    /\ OnlyFallbackCanMatch
    /\ elem.all_imgs = <<CdnSrc, AssetsSrc>>
    /\ rec.product.image_url = <<"http", "s://", "Assets.Site.com", "/a.jpg">>
    /\ rec.image_calls = SelectorStrategies(prog) + 1

\* the entry _extract_size_options builds for a size element
SizeEntry(button) ==
    <<button.text[1], " (",
      IF \/ \E k \in 1..Len(button.class) : button.class[k] = "disabled"
         \/ button.aria = <<"true">>
      THEN "Out of Stock" ELSE "In Stock",
      ")">>

\* C16: for size elements that all carry a label, available_sizes has one
\* entry per element, in DOM order, and the entry of an element reads
\* "Out of Stock" exactly when its class holds "disabled" or its
\* aria-disabled is "true", and "In Stock" otherwise.
C16_SizesInDomOrder ==
    (/\ prog \in Deep /\ pc = "x_done" /\ ~rec.raised
     /\ elem.sizes_ok
     /\ \A i \in 1..Len(elem.sizes) : elem.sizes[i].text[1] /= WS)
        => /\ Len(rec.product.available_sizes) = Len(elem.sizes)
           /\ \A i \in 1..Len(elem.sizes) :
                 rec.product.available_sizes[i] = SizeEntry(elem.sizes[i])

\* [(S, enabled), (M, disabled)] gives [S (In Stock), M (Out of Stock)]
C16_Witness ==
    /\ prog \in Deep /\ pc = "x_done" /\ ~rec.raised
    /\ Len(elem.sizes) = 2
    /\ rec.product.available_sizes =
          << <<"S", " (", "In Stock", ")">>, <<"M", " (", "Out of Stock", ")">> >>

\* the fields of a listing record and the node each is read from
ListingFieldNode ==
    [brand_name |-> "brand", current_price |-> "discountedPrice",
     product_rating |-> "ratingsContainer", product_title |-> "product",
     original_price |-> "strike", sale_price |-> "discountedPrice",
     discount_percent |-> "discountPercentage", product_link |-> "link",
     image_link |-> "img", review_count |-> "ratingsCount",
     category_path |-> "breadcrumb"]

\* the fields of a detail record read by _safe_extract and their nodes
DetailFieldNode ==
    [brand |-> "title", name |-> "name", discounted_price |-> "price",
     rating |-> "rating"]

\* C17: in every record the extractors return, each field is a value read
\* from its node or the sentinel "N/A", never None: a field whose node is
\* absent is "N/A", and a listing element with neither price node yields
\* "N/A" in all its price fields.
C17_FieldsReadOrSentinel ==
    /\ (prog = "myntra2_fast" /\ pc = "x_done" /\ ~rec.raised) =>
          /\ \A f \in DOMAIN ListingFieldNode :
                /\ rec.product[f] /= None
                /\ elem[ListingFieldNode[f]] = Absent => rec.product[f] = NA
          /\ rec.product.size_options = NA
          /\ (elem.discountedPrice = Absent /\ elem.strike = Absent) =>
                /\ rec.product.current_price = NA
                /\ rec.product.sale_price = NA
                /\ rec.product.original_price = NA
    /\ (prog \in Deep /\ pc = "x_done" /\ ~rec.raised) =>
          \A f \in DOMAIN DetailFieldNode :
              /\ rec.product[f] /= None
              /\ elem[DetailFieldNode[f]] \in {Absent, Broken} => rec.product[f] = NA

\* C18: MyntraWebScraper.extract_product_details returns a record for every
\* outcome of its DOM queries (node found, node absent, any other error of
\* the query such as a stale element): it never raises.
C18_ExtractorNeverRaises ==
    (prog = "myntra2_fast" /\ pc = "x_done") => ~rec.raised

\* C19: a time.sleep lies between any two consecutive listing-page loads of
\* the shallow scraper, the last page of a term and the first page of the
\* next term included, and between any two consecutive detail-page loads of
\* the deep scrapers.
C19_DelayBetweenLoads ==
    \A i \in 1..(Len(events) - 1) :
        /\ (Shallow /\ IsListing(events[i])) => ~IsListing(events[i + 1])
        /\ (IsDeep /\ events[i].kind = "detail") => events[i + 1].kind /= "detail"

\* C20: with max_pages > 0 the pages of every term are requested as
\* 1, 2, ..., k with k <= max_pages; a term the loop has left after fewer
\* than max_pages pages is a term whose last page produced no product; and
\* the session makes at most NumTerms * max_pages listing-page loads.
C20_PagesUpToTheLimit ==
    (Shallow /\ max_pages > 0) =>
        /\ \A t \in TermIds :
              LET pages == TermPages(t) IN
              /\ PagesInOrder(pages)
              /\ Len(pages) <= max_pages
              /\ (/\ t < termIdx /\ Len(search_urls_json) = NumTerms
                  /\ pages /= <<>>
                  /\ Len(pages) < max_pages)
                    => /\ pages[Len(pages)].kind = "listing"
                       /\ pages[Len(pages)].products = 0
              /\ (t < termIdx /\ Len(search_urls_json) = NumTerms
                    /\ search_urls[t] /= None) => pages /= <<>>
        /\ Len(loads) <= NumTerms * max_pages
        /\ pc = "page" => current_page <= max_pages + 1

\* the first term stopped at the page limit with its last page not empty,
\* the second stopped before the limit on an empty page
C20_Witness ==
    /\ Shallow /\ max_pages = MaxLimit /\ pc = "exit" /\ error = "none"
    /\ Len(TermPages(1)) = max_pages
    /\ TermPages(1)[max_pages].products > 0
    /\ Len(TermPages(2)) = 1
    /\ TermPages(2)[1].products = 0

\* C21: the image_url of every extracted detail record is "Image not
\* available" or a text that starts with "http" and holds no "?".
C21_ImageUrlAbsoluteNoQuery ==
    (prog \in Deep /\ pc = "x_done" /\ ~rec.raised) =>
        \/ rec.product.image_url = ImageNotAvailable
        \/ /\ rec.product.image_url /= <<>>
           /\ rec.product.image_url[1] = "http"
           /\ \A k \in 1..Len(rec.product.image_url) :
                 rec.product.image_url[k] /= "?"

\* the accepted answer held two "?": the image_url ends before the first
C21_Witness ==
    /\ prog \in Deep /\ pc = "x_done" /\ ~rec.raised
    /\ Strategies[2] = <<"http", "s://cdn/c.jpg", "?", "u=", "?", "w=200">>
    /\ rec.product.image_url = <<"http", "s://cdn/c.jpg">>

\* the texts the query-stripping step can be given on this page: the answers
\* of the strategies, the srcs of the <img> elements and the image_url
StripInputs ==
    {Strategies[i] : i \in 1..Len(Strategies)}
    \cup {elem.all_imgs[i] : i \in 1..Len(elem.all_imgs)}
    \cup {rec.product.image_url}

\* C22: stripping the query of a text that was already stripped returns it
\* unchanged, for every text: split("?")[0] applied twice equals it applied
\* once, and the image_url of a record is its own stripped form.
C22_StrippingIsIdempotent ==
    (prog \in Deep /\ pc = "x_done" /\ ~rec.raised) =>
        /\ \A s \in StripInputs : BeforeQuery(BeforeQuery(s)) = BeforeQuery(s)
        /\ rec.product.image_url /= ImageNotAvailable =>
              BeforeQuery(rec.product.image_url) = rec.product.image_url

\* a text with two "?" was stripped to the part before the first one, and
\* that part holds no "?" a second stripping could cut at
C22_Witness ==
    /\ prog \in Deep /\ pc = "x_done" /\ ~rec.raised
    /\ <<"http", "s://cdn/c.jpg", "?", "u=", "?", "w=200">> \in StripInputs
    /\ rec.product.image_url = <<"http", "s://cdn/c.jpg">>
    /\ <<"?", "http">> \in StripInputs

\* the " | "-join or "; "-join of a list of up to two texts, or its placeholder
Flat(list, sep, placeholder) ==
    IF Len(list) = 0 THEN <<placeholder>>
    ELSE IF Len(list) = 1 THEN list[1]
    ELSE list[1] \o <<sep>> \o list[2]

\* the fields of a detail record that hold one text
TextFields(r) == DOMAIN r \ {"reviews", "available_sizes"}

\* C23: a save_data call that returns has written one CSV row and one JSON
\* entry per record of scraped_data, in buffer order; the CSV row holds the
\* " | "-join of the reviews or "No reviews" and the "; "-join of the sizes
\* or "No sizes", the JSON entry keeps both as lists, every other field is
\* the record's in both, and the records of scraped_data are as they were.
C23_SaveDataWritesBuffer ==
    [][(/\ IsDeep /\ pc = "d_save" /\ pc' = "d_finally"
        /\ error' = "none" /\ scraped_data /= <<>>) =>
          /\ Len(out_csv'.rows) = Len(scraped_data) + 1
          /\ Len(out_json'.rows) = Len(scraped_data)
          /\ Len(scraped_data') = Len(scraped_data)
          /\ \A i \in 1..Len(scraped_data) :
                LET r == scraped_data[i]
                    c == out_csv'.rows[i + 1]
                    j == out_json'.rows[i]
                    m == scraped_data'[i]
                IN /\ Len(j.reviews) = Len(r.reviews)
                   /\ Len(j.available_sizes) = Len(r.available_sizes)
                   /\ Len(m.reviews) = Len(r.reviews)
                   /\ Len(m.available_sizes) = Len(r.available_sizes)
                   /\ c.reviews = Flat(r.reviews, " | ", "No reviews")
                   /\ c.available_sizes = Flat(r.available_sizes, "; ", "No sizes")
                   /\ \A f \in TextFields(r) : c[f] = r[f] /\ j[f] = r[f]
                   /\ j = r
                   /\ m = r]_vars

\* a buffer of two records was saved: the first has no review and no size,
\* the second two reviews and two sizes
C23_Witness ==
    /\ IsDeep /\ pc = "d_finally" /\ error = "none"
    /\ Len(scraped_data) = 2
    /\ Len(out_json.rows) = 2 /\ Len(out_csv.rows) = 3
    /\ scraped_data[1].reviews = <<>>
    /\ out_csv.rows[2].reviews = <<"No reviews">>
    /\ out_csv.rows[2].available_sizes = <<"No sizes">>
    /\ Len(scraped_data[2].reviews) = 2
    /\ out_csv.rows[3].reviews = <<"good", " | ", "fits">>
    /\ out_csv.rows[3].available_sizes =
          <<"S", " (", "In Stock", ")", "; ", "M", " (", "Out of Stock", ")">>
    /\ Len(out_json.rows[2].available_sizes) = 2

\* C24: search_urls.json is written after every search has returned and
\* before the first listing page is loaded; it has one entry per search term,
\* the URL its search returned or null when the search failed; and every
\* listing page loaded belongs to a term whose entry is not null.
C24_SearchUrlsWrittenBeforeCrawl ==
    Shallow =>
      /\ search_urls_json /= <<>> =>
            /\ Len(search_urls) = NumTerms
            /\ Len(search_urls_json) = NumTerms
            /\ search_urls_json = search_urls
            /\ \A t \in TermIds :
                  search_urls_json[t] \in {SearchUrl(search_terms[t]), None}
      /\ (loads /= <<>> \/ pc \in {"term", "page", "save", "delay"}) =>
            Len(search_urls_json) = NumTerms
      /\ \A i \in 1..Len(loads) : search_urls_json[loads[i].term] /= None

\* the first term's search failed, the file says so, and the second term's
\* first page has been loaded
C24_Witness ==
    /\ Shallow /\ Len(search_urls_json) = NumTerms
    /\ search_urls_json[1] = None
    /\ search_urls_json[2] = SearchUrl(search_terms[2])
    /\ Len(loads) = 1 /\ loads[1].term = 2

\* the URLs collect_product_urls returned for term t
CollectedFor(t) == UrlsOf(SelectSeq(collected, LAMBDA e : e.term = t))

\* the (term, URL) pair a record says it was scraped from
RecordVisits ==
    [i \in 1..Len(scraped_data) |->
        [keyword |-> scraped_data[i].search_keyword,
         url |-> scraped_data[i].product_url]]

\* the (term, URL) pairs of the collected URLs, in collection order
CollectedVisits ==
    [i \in 1..Len(collected) |->
        [keyword |-> <<search_terms[collected[i].term]>>,
         url |-> collected[i].url]]

\* a is b with some entries left out
RECURSIVE IsSubSeq(_, _)
IsSubSeq(a, b) ==
    IF a = <<>> THEN TRUE
    ELSE IF b = <<>> THEN FALSE
    ELSE IF Head(a) = Head(b) THEN IsSubSeq(Tail(a), Tail(b))
    ELSE IsSubSeq(a, Tail(b))

\* C25: with max_products >= 0 the URLs collected for a term are at most
\* max_products, each the link of one of the first max_products listing
\* elements, in DOM order; the records of scraped_data name, in order, visits
\* of collected URLs with their terms, at most one record per collected URL.
C25_AtMostMaxProductsInOrder ==
    IsDeep =>
      /\ max_products >= 0 =>
            \A t \in TermIds :
               LET urls == CollectedFor(t) IN
               /\ Len(urls) <= max_products
               /\ \A k \in 1..Len(urls) :
                     \E i \in k..max_products :
                        urls[k] = ProductUrl(search_terms[t], i)
               /\ \A k, l \in 1..Len(urls) :
                     k < l => \E i, j \in 1..max_products :
                                 /\ i < j
                                 /\ urls[k] = ProductUrl(search_terms[t], i)
                                 /\ urls[l] = ProductUrl(search_terms[t], j)
      /\ Len(scraped_data) <= Len(collected)
      /\ IsSubSeq(RecordVisits, CollectedVisits)

\* the results page showed more elements than max_products, the limit cut
\* the list, and the one collected URL gave a record
C25_Witness ==
    /\ IsDeep /\ max_products = 1
    /\ \E e \in 1..Len(events) :
          /\ events[e].kind = "listing" /\ events[e].term = 1
          /\ events[e].found = 2 /\ events[e].products = 1
    /\ CollectedFor(1) = <<ProductUrl(search_terms[1], 1)>>
    /\ Len(scraped_data) = 1
    /\ scraped_data[1].product_url = ProductUrl(search_terms[1], 1)
    /\ scraped_data[1].search_keyword = <<search_terms[1]>>

\* the entry the step has added to the history of loads, if it added one
NewEvent == IF Len(events') = Len(events) + 1 THEN events'[Len(events')]
            ELSE Event("none", 0, 0, 0, 0)

\* C26: no step of a session changes, removes or reorders a record that is in
\* the session buffer, and every record a load produces is appended to it,
\* whether or not the buffer already holds a record of the same product URL.
C26_BufferOnlyGrows ==
    [][/\ IsPrefix(all_products, all_products')
       /\ IsPrefix(scraped_data, scraped_data')
       /\ (Shallow /\ NewEvent.kind = "listing") =>
             /\ Len(all_products') = Len(all_products) + NewEvent.products
             /\ SubSeq(all_products', Len(all_products) + 1, Len(all_products'))
                   = page_products'
       /\ (IsDeep /\ NewEvent.kind = "detail") =>
             Len(scraped_data') = Len(scraped_data) + NewEvent.products
       /\ (NewEvent.kind \notin {"listing", "detail"}) =>
             /\ Len(all_products') = Len(all_products)
             /\ Len(scraped_data') = Len(scraped_data)]_vars

\* the second page of a term listed the product of the first page again and
\* the buffer holds two records of that product link
C26_Witness ==
    /\ Shallow /\ Len(all_products) = 2
    /\ all_products[1].product_link = all_products[2].product_link
    /\ all_products[1].search_term = all_products[2].search_term
    /\ all_products[1] /= all_products[2]
    /\ Len(events) >= 2 /\ events[Len(events)].page = 2

\* the data rows this session has appended to the output file
RowsAppended ==
    IF csv_file.exists
    THEN SubSeq(csv_file.rows, RowsBefore + 1, Len(csv_file.rows))
    ELSE <<>>

\* C27: at the start of every pagination iteration and when
\* run_scraping_session returns, the data rows this session appended to the
\* CSV are the records of all_products, in order; a file the session created
\* holds the header and exactly the records returned.
C27_CsvRowsEqualBuffer ==
    (Shallow /\ pc \in {"page", "summary"}) =>
        /\ Len(RowsAppended) = Len(all_products)
        /\ RowsAppended = all_products
        /\ (~csv0.exists /\ all_products /= <<>>) =>
              csv_file.rows = <<HeaderRow>> \o all_products

\* a price text that says nothing: empty or the "N/A" sentinel
NoPrice(text) == text = <<>> \/ text = NA

\* C28: in a record of the Nykaa detail extractor, original_price is empty or
\* "N/A" only if discounted_price is too; when the original-price node is
\* missing, cannot be read or has blank text, original_price equals
\* discounted_price.
C28_NykaaOriginalFallsBack ==
    (prog = "nyakaa_new" /\ pc = "x_done" /\ ~rec.raised) =>
        /\ NoPrice(rec.product.original_price)
              => NoPrice(rec.product.discounted_price)
        /\ elem.mrp \in {Absent, Broken, <<>>, <<WS>>}
              => rec.product.original_price = rec.product.discounted_price
        /\ elem.mrp \notin {Absent, Broken, <<>>, <<WS>>}
              => rec.product.original_price = Strip(elem.mrp, {WS})

\* a Nykaa page without the original-price node and with a price gave a
\* record whose original_price is that price
C28_Witness ==
    /\ prog = "nyakaa_new" /\ pc = "x_done" /\ ~rec.raised
    /\ elem.mrp = Absent
    /\ elem.price = <<"Rs.", "499">>
    /\ rec.product.original_price = <<"Rs.", "499">>

====
